---- MODULE Spec2Model ----
(***************************************************************************)
(* Missed-message email notifications of zerver/lib/email_notifications.py *)
(* as state machines:                                                      *)
(*   Spec         handle_missedmessage_emails, one run over one batch      *)
(*   SpecSpoiler  fix_spoilers_in_text applied once and twice              *)
(*   SpecList     build_message_list over bounded message lists            *)
(*   SpecEmit     do_send_missedmessage_events_reply_in_zulip on one list  *)
(* A Python str that the code splits on "\n" is the non-empty sequence of  *)
(* its lines; None is the string "None".                                   *)
(***************************************************************************)
EXTENDS Integers, Sequences, FiniteSets, TLC

VARIABLES
    mode,       \* which entry point this behaviour exercises
    pc,         \* position inside the entry point
    text,       \* fix_spoilers_in_text: content, as lines
    redacted,   \* fix_spoilers_in_text(text)
    redacted2,  \* fix_spoilers_in_text(redacted)
    list_in,    \* build_message_list: the messages argument
    list_out,   \* build_message_list(list_in)
    user_profile,       \* the UserProfile the emails go to, with its realm's setting
    send_as_user,       \* settings.SEND_MISSED_MESSAGE_EMAILS_AS_USER
    display_recipient,  \* get_display_recipient of the group recipient: its roster
    now,                \* timezone_now(), a logical clock
    queue,              \* the "email_senders" queue: what queue_json_publish got
    raised,             \* the exception that ended the call, or None
    emit_in,            \* the emitter called alone: its missed_messages argument
    store,              \* the Message table with the user's UserMessage rows, by id
    missed_email_events,    \* the batch handle_missedmessage_emails is called with
    message_ids,            \* its locals: message id -> trigger info,
    messages,               \*   the unread messages as the query returned them,
    messages_by_bucket,     \*   bucket_tup -> msg_list, in insertion order,
    message_count_by_bucket,
    bucket_tups,            \*   (bucket_tup, max_message_id), sorted
    calls,                  \* the calls of the emitter made so far, in order
    narrow_args,    \* get_narrow_url called alone: message, display_recipient, stream
    narrow_url      \* what the call returned or raised

spoilerVars == <<text, redacted, redacted2>>
listVars == <<list_in, list_out>>
envVars == <<send_as_user, display_recipient>>
outVars == <<user_profile, now, queue, raised>>
inVars == <<store, missed_email_events>>
runVars == <<message_ids, messages, messages_by_bucket, message_count_by_bucket,
             bucket_tups, calls>>
handlerVars == <<inVars, runVars>>
narrowVars == <<narrow_args, narrow_url>>
vars == <<mode, pc, spoilerVars, listVars, envVars, outVars, emit_in, handlerVars,
          narrowVars>>

None == "None"

(***************************************************************************)
(* Bounds                                                                  *)
(***************************************************************************)
MaxLines == 4
MaxList == 3
MaxOthers == 5
MaxMissed == 2
MaxMsgs == 3
MaxEvents == 3

RECURSIVE SeqsUpTo(_, _)
SeqsUpTo(S, n) ==
    IF n = 0 THEN {<<>>}
    ELSE LET shorter == SeqsUpTo(S, n - 1)
         IN  shorter \cup {Append(s, x) : s \in {t \in shorter : Len(t) = n - 1}, x \in S}

(***************************************************************************)
(* fix_spoilers_in_text                                                    *)
(***************************************************************************)
spoiler_title == "(Open Zulip to see the spoiler content)"

\* The lines a message body is built from: plain lines, fences of two fence
\* strings (three and four tildes) with and without a language, and the redaction line itself.
LineAlphabet ==
    {"", "text", "~~~spoiler", "~~~~spoiler", "~~~", "~~~~", "~~~python", spoiler_title}

\* FENCE_RE.match(line): the groups "fence" and "lang", or None for no match.
FENCE_RE_match(line) ==
    CASE line = "~~~spoiler" -> [fence |-> "~~~", lang |-> "spoiler"]
      [] line = "~~~~spoiler" -> [fence |-> "~~~~", lang |-> "spoiler"]
      [] line = "~~~"        -> [fence |-> "~~~", lang |-> ""]
      [] line = "~~~~"        -> [fence |-> "~~~~", lang |-> ""]
      [] line = "~~~python"  -> [fence |-> "~~~", lang |-> "python"]
      [] OTHER               -> [fence |-> None, lang |-> None]

\* content.split("\n") and "\n".join(output): a str is the sequence of its
\* lines, and the joined empty list is the empty string, of one empty line.
join_lines(output) == IF output = <<>> THEN <<"">> ELSE output

\* A plausible slip: an else in place of "elif not open_fence", which keeps
\* the lines hidden inside a spoiler.
spoiler_line_keeps_hidden(line, open_fence) ==
    LET m == FENCE_RE_match(line) IN
    IF m.fence # None
    THEN IF m.lang = "spoiler"
         THEN [open_fence |-> m.fence, out |-> <<line, spoiler_title>>]
         ELSE IF m.fence = open_fence
              THEN [open_fence |-> None, out |-> <<line>>]
              ELSE [open_fence |-> open_fence, out |-> <<>>]
    ELSE [open_fence |-> open_fence, out |-> <<line>>]

\* One iteration of the loop over the lines: the new open_fence and the
\* lines appended to output.
spoiler_line(line, open_fence) ==
    LET m == FENCE_RE_match(line) IN
    IF m.fence # None
    THEN IF m.lang = "spoiler"
         THEN [open_fence |-> m.fence, out |-> <<line, spoiler_title>>]
         ELSE IF m.fence = open_fence
              THEN [open_fence |-> None, out |-> <<line>>]
              ELSE [open_fence |-> open_fence, out |-> <<>>]
    ELSE IF open_fence = None
         THEN [open_fence |-> open_fence, out |-> <<line>>]
         ELSE [open_fence |-> open_fence, out |-> <<>>]

RECURSIVE spoiler_loop(_, _, _, _)
spoiler_loop(lines, i, open_fence, output) ==
    IF i > Len(lines) THEN output
    ELSE LET r == spoiler_line(lines[i], open_fence)
         IN  spoiler_loop(lines, i + 1, r.open_fence, output \o r.out)

fix_spoilers_in_text(content) == join_lines(spoiler_loop(content, 1, None, <<>>))

IdleSpoiler == text = <<>> /\ redacted = <<>> /\ redacted2 = <<>>
IdleList == list_in = <<>> /\ list_out = <<>>
IdleEmit ==
    /\ user_profile = <<>> /\ send_as_user = FALSE /\ display_recipient = <<>>
    /\ now = 0 /\ queue = <<>> /\ raised = None /\ emit_in = <<>>
IdleRun ==
    /\ message_ids = <<>> /\ messages = <<>> /\ messages_by_bucket = <<>>
    /\ message_count_by_bucket = <<>> /\ bucket_tups = <<>> /\ calls = <<>>
IdleHandler == store = <<>> /\ missed_email_events = <<>> /\ IdleRun
IdleNarrow == narrow_args = <<>> /\ narrow_url = <<>>

Texts == SeqsUpTo(LineAlphabet, MaxLines) \ {<<>>}

InitSpoiler ==
    /\ mode = "spoiler"
    /\ pc = "start"
    /\ text \in Texts
    /\ redacted = <<>>
    /\ redacted2 = <<>>
    /\ IdleList /\ IdleEmit /\ IdleHandler /\ IdleNarrow

RedactOnce ==
    /\ mode = "spoiler" /\ pc = "start"
    /\ redacted' = fix_spoilers_in_text(text)
    /\ pc' = "once"
    /\ UNCHANGED <<mode, text, redacted2, listVars, envVars, outVars, emit_in, handlerVars,
                   narrowVars>>

RedactTwice ==
    /\ mode = "spoiler" /\ pc = "once"
    /\ redacted2' = fix_spoilers_in_text(redacted)
    /\ pc' = "twice"
    /\ UNCHANGED <<mode, text, redacted, listVars, envVars, outVars, emit_in, handlerVars,
                   narrowVars>>

NextSpoiler == RedactOnce \/ RedactTwice

SpecSpoiler == InitSpoiler /\ [][NextSpoiler]_vars

(***************************************************************************)
(* Claims about fix_spoilers_in_text                                       *)
(***************************************************************************)
Lines(t) == {t[i] : i \in DOMAIN t}

\* C9: fix_spoilers_in_text is idempotent: redacting the redacted text again
\* gives the redacted text, with no second redaction line.
C9_SpoilerRedactionIdempotent ==
    (mode = "spoiler" /\ pc = "twice") => redacted2 = redacted

\* A text with a spoiler whose hidden line was dropped and replaced by the
\* redaction line, redacted twice.
C9_Witness ==
    /\ mode = "spoiler" /\ pc = "twice"
    /\ "~~~spoiler" \in Lines(text) /\ "text" \in Lines(text)
    /\ spoiler_title \notin Lines(text)
    /\ "text" \notin Lines(redacted)
    /\ spoiler_title \in Lines(redacted)

\* What C10 says of one line: as the code, but a fence line that neither
\* opens a spoiler nor closes the open one is emitted when no spoiler is open.
claimed_spoiler_line(line, open_fence) ==
    LET m == FENCE_RE_match(line) IN
    IF m.fence # None /\ m.lang = "spoiler"
    THEN [open_fence |-> m.fence, out |-> <<line, spoiler_title>>]
    ELSE IF m.fence # None /\ open_fence # None /\ m.fence = open_fence
         THEN [open_fence |-> None, out |-> <<line>>]
         ELSE IF open_fence = None
              THEN [open_fence |-> open_fence, out |-> <<line>>]
              ELSE [open_fence |-> open_fence, out |-> <<>>]

RECURSIVE claimed_spoiler_loop(_, _, _, _)
claimed_spoiler_loop(lines, i, open_fence, output) ==
    IF i > Len(lines) THEN output
    ELSE LET r == claimed_spoiler_line(lines[i], open_fence)
         IN  claimed_spoiler_loop(lines, i + 1, r.open_fence, output \o r.out)

\* C10: every spoiler-tagged fence line is emitted followed by the redaction
\* line, the lines between it and its closing fence are dropped, and every
\* line outside the spoiler regions is emitted unchanged and in order, the
\* fence lines of other code blocks included.
C10_LinesOutsideSpoilersKept ==
    (mode = "spoiler" /\ pc = "once") =>
        redacted = join_lines(claimed_spoiler_loop(text, 1, None, <<>>))

(***************************************************************************)
(* Messages, recipients and users                                          *)
(***************************************************************************)
PERSONAL == "personal"
HUDDLE == "huddle"
STREAM == "stream"

\* UserProfile.full_name by user id; user 8 is the user the emails go to.
full_name(user_id) == <<"A", "B", "C", "D", "E", "F", "G", "U">>[user_id]

Senders == {1, 2}

Topics == {"alpha", "Alpha", "beta"}

\* str.lower() on the topics of the model.
lower(s) == IF s = "Alpha" THEN "alpha" ELSE s

\* What a message can be: a direct message to the user (every sender's
\* direct messages share the user's personal recipient row), a message to
\* one group, or a message to one stream under a topic.
MessageShapes ==
    [recipient_type : {PERSONAL}, recipient_id : {1}, sender_id : Senders, subject : {""}]
    \cup [recipient_type : {HUDDLE}, recipient_id : {2}, sender_id : Senders, subject : {""}]
    \cup [recipient_type : {STREAM}, recipient_id : {3}, sender_id : Senders, subject : Topics]

Message(id, date_sent, shape) ==
    [id |-> id, date_sent |-> date_sent,
     recipient_type |-> shape.recipient_type, recipient_id |-> shape.recipient_id,
     sender_id |-> shape.sender_id, subject |-> shape.subject]

topic_name(message) == message.subject

\* The user the emails go to.
TheUser == 8

\* The roster of the one group of the model when no other is chosen.
DefaultRoster == <<1, 2, TheUser>>

\* sep.join(names)
RECURSIVE join(_, _)
join(sep, names) ==
    IF names = <<>> THEN ""
    ELSE IF Len(names) = 1 THEN names[1]
         ELSE names[1] \o sep \o join(sep, Tail(names))

\* [r for r in display_recipient if r["id"] != user_id]
RECURSIVE without_user(_, _)
without_user(roster, user_id) ==
    IF roster = <<>> THEN <<>>
    ELSE IF roster[1] # user_id
         THEN <<roster[1]>> \o without_user(Tail(roster), user_id)
         ELSE without_user(Tail(roster), user_id)

stream_name(recipient_id) == "Denmark"

(***************************************************************************)
(* get_narrow_url                                                          *)
(***************************************************************************)
\* An Optional argument: not passed (None), or passed.
Absent == <<>>
Given(x) == <<x>>

\* Stream.objects.only("id", "name").get(id=message.recipient.type_id)
stream_of(message) ==
    [id |-> message.recipient_id, name |-> stream_name(message.recipient_id)]

RECURSIVE join_ids(_)
join_ids(ids) ==
    IF ids = <<>> THEN ""
    ELSE IF Len(ids) = 1 THEN ToString(ids[1])
         ELSE ToString(ids[1]) \o "," \o join_ids(Tail(ids))

personal_narrow_url(sender_id) == "#narrow/pm-with/" \o ToString(sender_id)
huddle_narrow_url(other_user_ids) == "#narrow/pm-with/" \o join_ids(other_user_ids) \o "-group"
topic_narrow_url(stream, topic) ==
    "#narrow/stream/" \o ToString(stream.id) \o "-" \o stream.name \o "/topic/" \o topic

Returned(url) == [raised |-> None, url |-> url]
AssertionFailed == [raised |-> "AssertionError", url |-> ""]

\* get_narrow_url(user_profile, message, display_recipient, stream): the url
\* returned, or the AssertionError of one of its asserts; roster is what
\* get_display_recipient(message.recipient) gives.
get_narrow_url(user_id, message, display_recipient_arg, stream_arg, roster) ==
    IF message.recipient_type = PERSONAL
    THEN IF stream_arg # Absent THEN AssertionFailed
         ELSE IF display_recipient_arg # Absent THEN AssertionFailed
         ELSE Returned(personal_narrow_url(message.sender_id))
    ELSE IF message.recipient_type = HUDDLE
    THEN IF stream_arg # Absent THEN AssertionFailed
         ELSE LET recipients == IF display_recipient_arg = Absent
                                THEN roster ELSE display_recipient_arg[1]
              IN  Returned(huddle_narrow_url(without_user(recipients, user_id)))
    ELSE IF display_recipient_arg # Absent THEN AssertionFailed
         ELSE LET stream == IF stream_arg = Absent
                            THEN stream_of(message) ELSE stream_arg[1]
              IN  Returned(topic_narrow_url(stream, topic_name(message)))

(***************************************************************************)
(* build_message_list                                                      *)
(***************************************************************************)
\* A plausible slip: the sender's name for a direct message too.
sender_string_for_all(message) == full_name(message.sender_id)

sender_string(message) ==
    IF message.recipient_type \in {STREAM, HUDDLE}
    THEN full_name(message.sender_id)
    ELSE ""

\* The ContentItem of one message: the rewritten bodies stand as the message
\* id, and sender_prefix is the name prepend_sender_to_message puts in front
\* of both ("" when "if sender:" is false).
build_message_payload(message, sender) ==
    [message_id |-> message.id,
     sender_prefix |-> IF sender = None \/ sender = "" THEN "" ELSE sender]

\* A plausible slip: the first ContentItem of a SenderBlock built without
\* the sender.
build_sender_payload_without_sender(message) ==
    [sender |-> sender_string(message),
     content |-> <<build_message_payload(message, None)>>]

build_sender_payload(message) ==
    LET sender == sender_string(message)
    IN  [sender |-> sender, content |-> <<build_message_payload(message, sender)>>]

\* A plausible slip: the huddle and stream keys without the topic, so that
\* two topics of one stream collapse into one block.
grouping_without_topic(message) ==
    IF message.recipient_type = PERSONAL
    THEN [kind |-> "user", id |-> message.sender_id, topic |-> ""]
    ELSE IF message.recipient_type = HUDDLE
         THEN [kind |-> "huddle", id |-> message.recipient_id, topic |-> ""]
         ELSE [kind |-> "stream", id |-> message.recipient_id, topic |-> ""]

\* message_header(message)["grouping"]
grouping(message) ==
    IF message.recipient_type = PERSONAL
    THEN [kind |-> "user", id |-> message.sender_id, topic |-> ""]
    ELSE IF message.recipient_type = HUDDLE
         THEN [kind |-> "huddle", id |-> message.recipient_id, topic |-> ""]
         ELSE [kind |-> "stream", id |-> message.recipient_id,
               topic |-> lower(topic_name(message))]

\* A plausible slip: the stream looked up and passed in every branch.
narrow_link_with_stream(message) ==
    get_narrow_url(TheUser, message, Absent, Given(stream_of(message)), display_recipient)

\* The call of get_narrow_url message_header makes in the branch of the
\* message's recipient type.
narrow_link(message) ==
    IF message.recipient_type = PERSONAL
    THEN get_narrow_url(TheUser, message, Absent, Absent, display_recipient)
    ELSE IF message.recipient_type = HUDDLE
         THEN get_narrow_url(TheUser, message, Given(display_recipient), Absent,
                             display_recipient)
         ELSE get_narrow_url(TheUser, message, Absent, Given(stream_of(message)),
                             display_recipient)

message_header(message) ==
    [grouping |-> grouping(message),
     narrow_link |-> narrow_link(message).url,
     stream_message |-> message.recipient_type = STREAM]

\* list.sort(key=...): stable, by insertion from the left.
RECURSIVE insert_by_date_sent(_, _)
insert_by_date_sent(sorted, message) ==
    IF sorted = <<>> THEN <<message>>
    ELSE IF sorted[Len(sorted)].date_sent <= message.date_sent
         THEN Append(sorted, message)
         ELSE Append(insert_by_date_sent(SubSeq(sorted, 1, Len(sorted) - 1), message),
                     sorted[Len(sorted)])

RECURSIVE sort_by_date_sent(_)
sort_by_date_sent(msgs) ==
    IF msgs = <<>> THEN <<>>
    ELSE insert_by_date_sent(
             sort_by_date_sent(SubSeq(msgs, 1, Len(msgs) - 1)),
             msgs[Len(msgs)])

\* A plausible slip: a message collapses into the last block whatever its
\* grouping key.
collapses_always(messages_to_render, header) ==
    Len(messages_to_render) > 0

\* "If we want to collapse into the previous recipient block"
collapses(messages_to_render, header) ==
    /\ Len(messages_to_render) > 0
    /\ messages_to_render[Len(messages_to_render)].header.grouping = header.grouping

\* The body of the loop over the sorted messages.
render_message(messages_to_render, message) ==
    LET header == message_header(message)
        n == Len(messages_to_render)
    IN  IF collapses(messages_to_render, header)
        THEN LET sender == sender_string(message)
                 sender_block == messages_to_render[n].senders
                 k == Len(sender_block)
             IN  IF sender_block[k].sender = sender
                 THEN [messages_to_render EXCEPT
                          ![n].senders[k].content =
                              Append(@, build_message_payload(message, None))]
                 ELSE [messages_to_render EXCEPT
                          ![n].senders = Append(@, build_sender_payload(message))]
        ELSE Append(messages_to_render,
                    [header |-> header, senders |-> <<build_sender_payload(message)>>])

RECURSIVE render_all(_, _, _)
render_all(msgs, i, messages_to_render) ==
    IF i > Len(msgs) THEN messages_to_render
    ELSE render_all(msgs, i + 1, render_message(messages_to_render, msgs[i]))

build_message_list(msgs) == render_all(sort_by_date_sent(msgs), 1, <<>>)

\* The exception that ends build_message_list: that of the first header
\* whose get_narrow_url raises, or None.
build_message_list_raised(msgs) ==
    LET sorted == sort_by_date_sent(msgs)
        failing == {i \in DOMAIN sorted : narrow_link(sorted[i]).raised # None}
    IN  IF failing = {} THEN None
        ELSE narrow_link(sorted[CHOOSE i \in failing : \A j \in failing : i <= j]).raised

\* The lists build_message_list is called with: distinct ids in any order,
\* send times that may tie or run against the ids.
ListDates == 1..2

RECURSIVE MessageLists(_)
MessageLists(n) ==
    IF n = 0 THEN {<<>>}
    ELSE LET shorter == MessageLists(n - 1)
         IN  shorter \cup
             {Append(l, Message(n, d, sh)) :
                 l \in {t \in shorter : Len(t) = n - 1}, d \in ListDates, sh \in MessageShapes}

InitList ==
    /\ mode = "list"
    /\ pc = "start"
    /\ list_in \in MessageLists(MaxList)
    /\ list_out = <<>>
    /\ display_recipient = DefaultRoster
    /\ user_profile = <<>> /\ send_as_user = FALSE
    /\ now = 0 /\ queue = <<>> /\ raised = None /\ emit_in = <<>>
    /\ IdleSpoiler /\ IdleHandler /\ IdleNarrow

BuildList ==
    /\ mode = "list" /\ pc = "start"
    /\ raised' = build_message_list_raised(list_in)
    /\ list_out' = IF raised' = None THEN build_message_list(list_in) ELSE <<>>
    /\ pc' = "built"
    /\ UNCHANGED <<mode, list_in, spoilerVars, envVars, user_profile, now, queue, emit_in,
                   handlerVars, narrowVars>>

NextList == BuildList

SpecList == InitList /\ [][NextList]_vars

(***************************************************************************)
(* Claims about build_message_list                                         *)
(***************************************************************************)
Range(f) == {f[i] : i \in DOMAIN f}

\* The message ids of the content items, read block by block.
RECURSIVE FlattenSenders(_)
FlattenSenders(senders) ==
    IF senders = <<>> THEN <<>>
    ELSE [i \in 1..Len(senders[1].content) |-> senders[1].content[i].message_id]
         \o FlattenSenders(Tail(senders))

RECURSIVE FlattenBlocks(_)
FlattenBlocks(blocks) ==
    IF blocks = <<>> THEN <<>>
    ELSE FlattenSenders(blocks[1].senders) \o FlattenBlocks(Tail(blocks))

\* For every content item in reading order, the index of its RecipientBlock.
RECURSIVE BlockIndexes(_, _)
BlockIndexes(blocks, b) ==
    IF b > Len(blocks) THEN <<>>
    ELSE [i \in 1..Len(FlattenSenders(blocks[b].senders)) |-> b]
         \o BlockIndexes(blocks, b + 1)

ListMessage(id) == CHOOSE m \in Range(list_in) : m.id = id

\* C8: build_message_list returns one RecipientBlock per maximal run of equal
\* grouping key of the messages in send-time order: the content items read
\* block by block are every input message once, in send-time order; two of
\* them share a block iff all messages from the one to the other have the
\* same grouping key; the number of blocks is the number of such runs.
C8_RecipientBlocksAreMaximalRuns ==
    (mode = "list" /\ pc = "built") =>
        LET ids == FlattenBlocks(list_out)
            blk == BlockIndexes(list_out, 1)
            key(i) == grouping(ListMessage(ids[i]))
            n == Len(ids)
        IN  /\ n = Len(list_in)
            /\ Range(ids) = {m.id : m \in Range(list_in)}
            /\ \A i \in 1..n, j \in 1..n :
                   i < j => ListMessage(ids[i]).date_sent <= ListMessage(ids[j]).date_sent
            /\ \A i \in 1..n, j \in 1..n :
                   i <= j =>
                       ((blk[i] = blk[j]) <=> (\A k \in i..j : key(k) = key(i)))
            /\ Len(list_out) = Cardinality({i \in 1..n : i = 1 \/ key(i) # key(i - 1)})
            /\ \A b \in 1..Len(list_out) : list_out[b].senders # <<>>

\* Three messages whose keys run x, y, x in send-time order (the list itself
\* is in another order) came out as three blocks.
C8_Witness ==
    /\ mode = "list" /\ pc = "built"
    /\ Len(list_in) = 3 /\ Len(list_out) = 3
    /\ list_out[1].header.grouping = list_out[3].header.grouping
    /\ list_out[1].header.grouping # list_out[2].header.grouping
    /\ FlattenBlocks(list_out) # [i \in 1..3 |-> list_in[i].id]

\* The label a message's sender goes by: the name, for a group or stream
\* message, nothing for a direct message.
SenderLabel(message) ==
    IF message.recipient_type = PERSONAL THEN "" ELSE full_name(message.sender_id)

\* C14: in every RecipientBlock the SenderBlocks are the maximal runs of
\* equal sender label of the block's messages in send-time order: every
\* SenderBlock has a content item, carries the label of each of its
\* messages, and differs in label from the one before it; a block of direct
\* messages is one SenderBlock with the empty label.
C14_SenderBlocksAreMaximalRuns ==
    (mode = "list" /\ pc = "built") =>
        \A b \in DOMAIN list_out :
            LET senders == list_out[b].senders
                ids == FlattenSenders(senders)
            IN  /\ senders # <<>>
                /\ \A k \in DOMAIN senders :
                       /\ senders[k].content # <<>>
                       /\ \A c \in DOMAIN senders[k].content :
                              SenderLabel(ListMessage(senders[k].content[c].message_id))
                                  = senders[k].sender
                       /\ k > 1 => senders[k].sender # senders[k - 1].sender
                /\ \A i \in DOMAIN ids, j \in DOMAIN ids :
                       i < j => ListMessage(ids[i]).date_sent <= ListMessage(ids[j]).date_sent
                /\ list_out[b].header.grouping.kind = "user" =>
                       (Len(senders) = 1 /\ senders[1].sender = "")

\* Three messages of one topic by A, B and A came out as one block of three
\* SenderBlocks.
C14_Witness ==
    /\ mode = "list" /\ pc = "built"
    /\ Len(list_out) = 1
    /\ list_out[1].header.stream_message
    /\ Len(list_out[1].senders) = 3
    /\ list_out[1].senders[1].sender = "A"
    /\ list_out[1].senders[2].sender = "B"
    /\ list_out[1].senders[3].sender = "A"

\* C15 as claimed: the ContentItem of every message with a sender label has
\* the sender's name in front, whether it starts a SenderBlock or was
\* appended to one.
C15_EveryItemHasSenderPrefix ==
    (mode = "list" /\ pc = "built") =>
        \A b \in DOMAIN list_out : \A k \in DOMAIN list_out[b].senders :
            \A c \in DOMAIN list_out[b].senders[k].content :
                LET item == list_out[b].senders[k].content[c]
                    label == SenderLabel(ListMessage(item.message_id))
                IN  label # "" => item.sender_prefix = label

\* C15 as amended: the ContentItem that starts a SenderBlock has the name
\* of the sender in front when the sender label is not empty; the
\* ContentItems appended to a SenderBlock, and those of direct messages,
\* have nothing in front.
C15_FirstItemHasSenderPrefix ==
    (mode = "list" /\ pc = "built") =>
        \A b \in DOMAIN list_out : \A k \in DOMAIN list_out[b].senders :
            \A c \in DOMAIN list_out[b].senders[k].content :
                LET item == list_out[b].senders[k].content[c]
                    label == SenderLabel(ListMessage(item.message_id))
                IN  item.sender_prefix = IF c = 1 THEN label ELSE ""

\* Two messages of A in one topic: one SenderBlock, the first item with
\* "A" in front, the second with nothing.
C15_Witness ==
    /\ mode = "list" /\ pc = "built"
    /\ Len(list_out) = 1
    /\ list_out[1].header.stream_message
    /\ Len(list_out[1].senders) = 1
    /\ list_out[1].senders[1].sender = "A"
    /\ Len(list_out[1].senders[1].content) = 2
    /\ list_out[1].senders[1].content[1].sender_prefix = "A"
    /\ list_out[1].senders[1].content[2].sender_prefix = ""

(***************************************************************************)
(* do_send_missedmessage_events_reply_in_zulip                             *)
(***************************************************************************)
\* Why a message is in the batch, with the user group that was mentioned;
\* the last is what a message without an event is passed with.
EventKinds ==
    {[trigger |-> "private_message", mentioned_user_group_id |-> None],
     [trigger |-> "mentioned", mentioned_user_group_id |-> None],
     [trigger |-> "mentioned", mentioned_user_group_id |-> "hamletcharacters"],
     [trigger |-> "wildcard_mentioned", mentioned_user_group_id |-> None],
     [trigger |-> "stream_email_notify", mentioned_user_group_id |-> None]}

NoEvent == [trigger |-> None, mentioned_user_group_id |-> None]

MissedMessage(message, info) ==
    [message |-> message, trigger |-> info.trigger,
     mentioned_user_group_id |-> info.mentioned_user_group_id]

\* dict.update: the keys of new replace those of context.
update(context, new) == new @@ context

\* list(a_set): the elements once each, in an order Python does not fix.
Orderings(S) ==
    {order \in [1..Cardinality(S) -> S] :
        \A i \in 1..Cardinality(S), j \in 1..Cardinality(S) : i # j => order[i] # order[j]}

count(items, x) == Cardinality({i \in DOMAIN items : items[i] = x})

email(user_id) == full_name(user_id) \o "@zulip.com"

message_content_allowed_in_missedmessage_emails(user) ==
    /\ user.realm_message_content_allowed_in_email_notifications
    /\ user.message_content_in_email_notifications

\* A plausible slip: the three-name form also for longer rosters.
huddle_display_name_three_for_all(other_recipients) ==
    IF Len(other_recipients) = 2
    THEN join(" and ", other_recipients)
    ELSE other_recipients[1] \o ", " \o other_recipients[2]
         \o ", and " \o other_recipients[3]

\* The group path's display name of the conversation.
huddle_display_name(other_recipients) ==
    IF Len(other_recipients) = 2
    THEN join(" and ", other_recipients)
    ELSE IF Len(other_recipients) = 3
         THEN other_recipients[1] \o ", " \o other_recipients[2]
              \o ", and " \o other_recipients[3]
         ELSE join(", ", SubSeq(other_recipients, 1, 2))
              \o ", and " \o ToString(Len(other_recipients) - 2) \o " others"

\* [r["full_name"] for r in display_recipient if r["id"] != user_profile.id]
other_recipients_of(roster, user) ==
    LET others == without_user(roster, user.id)
    IN  [i \in 1..Len(others) |-> full_name(others[i])]

\* A plausible slip: the content branch taken although content is disabled.
content_context_always(user, missed_messages, senders) ==
    [messages |-> build_message_list([i \in 1..Len(missed_messages) |->
                                          missed_messages[i].message]),
     sender_str |-> join(", ", [i \in 1..Len(senders) |-> full_name(senders[i])]),
     realm_str |-> "Zulip Dev",
     show_message_content |-> TRUE]

\* "If message content is disabled, then flush all information we pass to
\* email": the keys the last context.update sets.
content_context(user, missed_messages, senders) ==
    IF ~message_content_allowed_in_missedmessage_emails(user)
    THEN [reply_to_zulip |-> FALSE,
          messages |-> <<>>,
          sender_str |-> "",
          realm_str |-> "Zulip Dev",
          huddle_display_name |-> "",
          show_message_content |-> FALSE,
          message_content_disabled_by_user |->
              ~user.message_content_in_email_notifications,
          message_content_disabled_by_realm |->
              ~user.realm_message_content_allowed_in_email_notifications]
    ELSE [messages |-> build_message_list([i \in 1..Len(missed_messages) |->
                                               missed_messages[i].message]),
          sender_str |-> join(", ", [i \in 1..Len(senders) |-> full_name(senders[i])]),
          realm_str |-> "Zulip Dev",
          show_message_content |-> TRUE]

\* Lines 502-561 for one order of the senders: the email_dict published.
email_dict(user, missed_messages, context, senders) ==
    LET as_user == Len(senders) = 1 /\ send_as_user
        context2 == update(context, content_context(user, missed_messages, senders))
    IN  [template_prefix |-> "zerver/emails/missed_message",
         to_user_ids |-> <<user.id>>,
         from_name |-> IF as_user THEN full_name(senders[1]) ELSE "Zulip notifications",
         from_address |-> IF as_user THEN email(senders[1]) ELSE "noreply@zulip.com",
         context |-> IF as_user THEN update(context2, [reply_to_zulip |-> FALSE])
                     ELSE context2]

\* A plausible slip: the email_dict handed to the queue twice.
published_twice(user, missed_messages, context, sender_set) ==
    {[raised |-> None,
      published |-> <<email_dict(user, missed_messages, context, senders),
                      email_dict(user, missed_messages, context, senders)>>] :
        senders \in Orderings(sender_set)}

\* queue_json_publish("email_senders", email_dict), for every order the set
\* of senders can be listed in.
published(user, missed_messages, context, sender_set) ==
    LET list_raised == build_message_list_raised([i \in 1..Len(missed_messages) |->
                                                     missed_messages[i].message])
    IN  IF message_content_allowed_in_missedmessage_emails(user) /\ list_raised # None
        THEN {[raised |-> list_raised, published |-> <<>>]}
        ELSE {[raised |-> None,
               published |-> <<email_dict(user, missed_messages, context, senders)>>] :
                 senders \in Orderings(sender_set)}

\* A plausible slip: the senders of all the messages kept.
mention_senders_of_all(missed_messages) ==
    {missed_messages[i].message.sender_id : i \in DOMAIN missed_messages}

\* "Keep only the senders who actually mentioned the user"
mention_senders(missed_messages) ==
    {missed_messages[i].message.sender_id :
        i \in {j \in DOMAIN missed_messages :
                  missed_messages[j].trigger \in {"mentioned", "wildcard_mentioned"}}}

\* A plausible slip: the stream path taken whatever the triggers.
takes_stream_path_always(context) == TRUE

\* elif context["mention"] or context["stream_email_notify"]:
takes_stream_path(context) == context.mention \/ context.stream_email_notify

\* The ways one call can end: the exception raised, or None and the email_dict
\* handed to queue_json_publish (one way per order of the set of senders).
do_send_missedmessage_events_reply_in_zulip(user, missed_messages, message_count) ==
    LET recipients == {<<missed_messages[i].message.recipient_id,
                         lower(topic_name(missed_messages[i].message))>> :
                           i \in DOMAIN missed_messages}
        triggers == [i \in DOMAIN missed_messages |-> missed_messages[i].trigger]
        unique_triggers == {triggers[i] : i \in DOMAIN triggers}
        personal_mentioned ==
            \E i \in DOMAIN missed_messages :
                /\ missed_messages[i].trigger = "mentioned"
                /\ missed_messages[i].mentioned_user_group_id = None
        first == missed_messages[1].message
        narrow == get_narrow_url(user.id, first, Absent, Absent, display_recipient)
        context ==
            update([name |-> full_name(user.id),
                    message_count |-> message_count,
                    reply_to_zulip |-> TRUE,
                    narrow_url |-> narrow.url],
                   [mention |-> "mentioned" \in unique_triggers
                                \/ "wildcard_mentioned" \in unique_triggers,
                    personal_mentioned |-> personal_mentioned,
                    wildcard_mentioned |-> "wildcard_mentioned" \in unique_triggers,
                    stream_email_notify |-> "stream_email_notify" \in unique_triggers,
                    mention_count |-> count(triggers, "mentioned")
                                      + count(triggers, "wildcard_mentioned")])
        senders == {missed_messages[i].message.sender_id : i \in DOMAIN missed_messages}
    IN  IF Cardinality(recipients) # 1
        THEN {[raised |-> "AssertionError: Unexpectedly multiple recipients",
               published |-> <<>>]}
        ELSE IF narrow.raised # None
        THEN {[raised |-> narrow.raised, published |-> <<>>]}
        ELSE IF first.recipient_type = HUDDLE
        THEN published(user, missed_messages,
                       update(context,
                              [group_pm |-> TRUE,
                               huddle_display_name |->
                                   huddle_display_name(
                                       other_recipients_of(display_recipient, user))]),
                       senders)
        ELSE IF first.recipient_type = PERSONAL
        THEN published(user, missed_messages,
                       update(context, [private_message |-> TRUE]), senders)
        ELSE IF takes_stream_path(context)
        THEN published(user, missed_messages,
                       update(context, [stream_name |-> stream_name(first.recipient_id)]),
                       IF context.mention
                       THEN mention_senders(missed_messages)
                       ELSE senders)
        ELSE {[raised |-> "AssertionError: Invalid messages!", published |-> <<>>]}

(***************************************************************************)
(* The emitter called on one list of missed messages                       *)
(***************************************************************************)
UserProfiles ==
    [id : {TheUser}, is_bot : BOOLEAN, enable_offline_email_notifications : BOOLEAN,
     message_content_in_email_notifications : BOOLEAN,
     realm_message_content_allowed_in_email_notifications : BOOLEAN,
     last_reminder : {0}]

\* A group's roster: the user and 2..MaxOthers others, the others in the
\* order of their names, the user first or last.
Rosters ==
    UNION {{<<TheUser>> \o [i \in 1..k |-> i], [i \in 1..k |-> i] \o <<TheUser>>} :
              k \in 2..MaxOthers}

\* Messages that fall into the bucket of a message of this shape.
SameBucketShapes(shape) ==
    {sh \in MessageShapes :
        /\ sh.recipient_id = shape.recipient_id
        /\ IF shape.recipient_type = PERSONAL
           THEN sh.sender_id = shape.sender_id
           ELSE lower(sh.subject) = lower(shape.subject)}

\* The lists the emitter is called with: messages of one bucket with ids in
\* list order, each with an event's trigger or none.
RECURSIVE MissedLists(_)
MissedLists(n) ==
    IF n = 1
    THEN {<<MissedMessage(Message(1, 1, sh), info)>> :
             sh \in MessageShapes, info \in EventKinds \cup {NoEvent}}
    ELSE LET shorter == MissedLists(n - 1)
         IN  shorter \cup
             UNION {{Append(l, MissedMessage(Message(n, n, sh), info)) :
                        sh \in SameBucketShapes(l[1].message),
                        info \in EventKinds \cup {NoEvent}} :
                    l \in {t \in shorter : Len(t) = n - 1}}

InitEmit ==
    /\ mode = "emit"
    /\ pc = "start"
    /\ emit_in \in MissedLists(MaxMissed)
    /\ user_profile \in {u \in UserProfiles :
                            ~u.is_bot /\ u.enable_offline_email_notifications}
    /\ send_as_user \in BOOLEAN
    /\ display_recipient \in IF emit_in[1].message.recipient_type = HUDDLE
                             THEN Rosters ELSE {DefaultRoster}
    /\ now = 1
    /\ queue = <<>>
    /\ raised = None
    /\ IdleSpoiler /\ IdleList /\ IdleHandler /\ IdleNarrow

\* One call of the emitter: the payload published and last_reminder
\* recorded, or the exception.
EmitAlone ==
    /\ mode = "emit" /\ pc = "start"
    /\ \E r \in do_send_missedmessage_events_reply_in_zulip(
                    user_profile, emit_in, Len(emit_in)) :
          /\ queue' = queue \o r.published
          /\ raised' = r.raised
          /\ user_profile' = IF r.raised = None
                             THEN [user_profile EXCEPT !.last_reminder = now]
                             ELSE user_profile
    /\ now' = now + 1
    /\ pc' = "emitted"
    /\ UNCHANGED <<mode, emit_in, envVars, spoilerVars, listVars, handlerVars,
                   narrowVars>>

NextEmit == EmitAlone

SpecEmit == InitEmit /\ [][NextEmit]_vars

(***************************************************************************)
(* Claims about the emitter                                                *)
(***************************************************************************)
ContentDisabled(user) ==
    \/ ~user.message_content_in_email_notifications
    \/ ~user.realm_message_content_allowed_in_email_notifications

\* A stream list none of whose triggers is a mention or the stream's email
\* notification: the one list the emitter refuses ("Invalid messages!").
StreamWithoutTrigger(missed_messages) ==
    /\ missed_messages[1].message.recipient_type = STREAM
    /\ \A i \in DOMAIN missed_messages :
           missed_messages[i].trigger
               \notin {"mentioned", "wildcard_mentioned", "stream_email_notify"}

BlankedPayload(payload, user) ==
    /\ payload.context.messages = <<>>
    /\ payload.context.sender_str = ""
    /\ payload.context.huddle_display_name = ""
    /\ payload.context.show_message_content = FALSE
    /\ payload.context.message_content_disabled_by_user
           = ~user.message_content_in_email_notifications
    /\ payload.context.message_content_disabled_by_realm
           = ~user.realm_message_content_allowed_in_email_notifications
    /\ \/ payload.context.message_content_disabled_by_user
       \/ payload.context.message_content_disabled_by_realm

OtherNames(roster) ==
    LET idx == {i \in DOMAIN roster : roster[i] # TheUser}
        nth(k) == CHOOSE i \in idx : Cardinality({j \in idx : j < i}) = k - 1
    IN  [k \in 1..Cardinality(idx) |-> full_name(roster[nth(k)])]

\* C6: a group bucket emitted with content sharing enabled names the
\* conversation after the others of the roster: "A and B" for 2,
\* "A, B, and C" for 3, "A, B, and N others" with N = n - 2 for n > 3.
C6_HuddleDisplayName ==
    (/\ mode = "emit" /\ pc = "emitted"
     /\ emit_in[1].message.recipient_type = HUDDLE
     /\ ~ContentDisabled(user_profile)) =>
        LET o == OtherNames(display_recipient)
            n == Len(o)
        IN  /\ Len(queue) = 1
            /\ queue[1].context.group_pm
            /\ n = 2 => queue[1].context.huddle_display_name = o[1] \o " and " \o o[2]
            /\ n = 3 => queue[1].context.huddle_display_name
                            = o[1] \o ", " \o o[2] \o ", and " \o o[3]
            /\ n > 3 => queue[1].context.huddle_display_name
                            = o[1] \o ", " \o o[2] \o ", and " \o ToString(n - 2) \o " others"

\* A roster of the user and four others came out as "A, B, and 2 others".
C6_Witness ==
    /\ mode = "emit" /\ pc = "emitted"
    /\ display_recipient = <<1, 2, 3, 4, TheUser>>
    /\ Len(queue) = 1
    /\ queue[1].context.huddle_display_name = "A, B, and 2 others"

PathKeys == {"group_pm", "private_message", "stream_name"}

\* C11: an emitted list takes the group path, the direct path or the stream
\* path by the recipient type of its first message, and only the one; the
\* stream path needs a mentioned, wildcard_mentioned or stream_email_notify
\* trigger, and a stream list without one raises AssertionError with nothing
\* published and last_reminder not recorded.
C11_OnePathOrAssertionError ==
    (mode = "emit" /\ pc = "emitted") =>
        LET type == emit_in[1].message.recipient_type
            path == IF type = HUDDLE THEN "group_pm"
                    ELSE IF type = PERSONAL THEN "private_message" ELSE "stream_name"
        IN  IF StreamWithoutTrigger(emit_in)
            THEN /\ raised = "AssertionError: Invalid messages!"
                 /\ queue = <<>>
                 /\ user_profile.last_reminder = 0
            ELSE /\ raised = None
                 /\ Len(queue) = 1
                 /\ DOMAIN queue[1].context \cap PathKeys = {path}
                 /\ user_profile.last_reminder = now - 1

\* A stream list of two messages whose events were both private_message
\* events: the AssertionError, nothing published.
C11_Witness ==
    /\ mode = "emit" /\ pc = "emitted"
    /\ Len(emit_in) = 2
    /\ emit_in[1].message.recipient_type = STREAM
    /\ emit_in[1].trigger = "private_message" /\ emit_in[2].trigger = None
    /\ raised = "AssertionError: Invalid messages!"
    /\ queue = <<>>
    /\ user_profile.last_reminder = 0

\* The senders of the messages of a list that came with one of the triggers.
SendersWith(missed_messages, triggers) ==
    {missed_messages[i].message.sender_id :
        i \in {j \in DOMAIN missed_messages : missed_messages[j].trigger \in triggers}}

NarrowCalls ==
    {[message |-> m, display_recipient |-> d, stream |-> st] :
        m \in {Message(1, 1, sh) : sh \in MessageShapes},
        d \in {Absent} \cup {Given(r) : r \in Rosters},
        st \in {Absent} \cup {Given(stream_of(Message(1, 1, sh))) : sh \in MessageShapes}}

InitNarrow ==
    /\ mode = "narrow"
    /\ pc = "start"
    /\ narrow_args \in NarrowCalls
    /\ narrow_url = <<>>
    /\ display_recipient = DefaultRoster
    /\ user_profile = <<>> /\ send_as_user = FALSE
    /\ now = 0 /\ queue = <<>> /\ raised = None /\ emit_in = <<>>
    /\ IdleSpoiler /\ IdleList /\ IdleHandler

CallNarrowUrl ==
    /\ mode = "narrow" /\ pc = "start"
    /\ narrow_url' = get_narrow_url(TheUser, narrow_args.message,
                                    narrow_args.display_recipient, narrow_args.stream,
                                    display_recipient)
    /\ raised' = narrow_url'.raised
    /\ pc' = "called"
    /\ UNCHANGED <<mode, narrow_args, envVars, user_profile, now, queue, emit_in,
                   spoilerVars, listVars, handlerVars>>

\* get_narrow_url on its own, and called by build_message_list and by the
\* emitter.
InitNarrowAndCallers == InitNarrow \/ InitList \/ InitEmit

NextNarrow == CallNarrowUrl \/ BuildList \/ EmitAlone

SpecNarrow == InitNarrowAndCallers /\ [][NextNarrow]_vars

(***************************************************************************)
(* Claims about get_narrow_url                                             *)
(***************************************************************************)
\* The url of a message's conversation, the group's roster being roster.
UrlOf(message, roster) ==
    IF message.recipient_type = PERSONAL
    THEN personal_narrow_url(message.sender_id)
    ELSE IF message.recipient_type = HUDDLE
         THEN huddle_narrow_url(without_user(roster, TheUser))
         ELSE topic_narrow_url(stream_of(message), message.subject)

\* C12: get_narrow_url raises AssertionError exactly when it is passed a
\* stream with a direct or group message or a display_recipient with a
\* direct or stream message, and otherwise returns the url of the branch of
\* the message's recipient type; the header builder of build_message_list
\* and the emitter never make it raise, and get the url of the message.
C12_NarrowUrlArgumentsMatchType ==
    /\ (mode = "narrow" /\ pc = "called") =>
           LET m == narrow_args.message
               d == narrow_args.display_recipient
               st == narrow_args.stream
               foreign == \/ st # Absent /\ m.recipient_type \in {PERSONAL, HUDDLE}
                          \/ d # Absent /\ m.recipient_type \in {PERSONAL, STREAM}
           IN  IF foreign
               THEN raised = "AssertionError" /\ narrow_url.raised = "AssertionError"
               ELSE /\ raised = None
                    /\ narrow_url.raised = None
                    /\ narrow_url.url =
                           IF m.recipient_type = STREAM /\ st # Absent
                           THEN topic_narrow_url(st[1], m.subject)
                           ELSE UrlOf(m, IF d = Absent THEN display_recipient ELSE d[1])
    /\ (mode = "list" /\ pc = "built") =>
           /\ raised = None
           /\ Len(FlattenBlocks(list_out)) = Len(list_in)
           /\ \A b \in DOMAIN list_out :
                  list_out[b].header.narrow_link =
                      UrlOf(CHOOSE m \in Range(list_in) :
                                m.id = list_out[b].senders[1].content[1].message_id,
                            display_recipient)
    /\ (mode = "emit" /\ pc = "emitted") =>
           /\ raised # "AssertionError"
           /\ \A i \in DOMAIN queue :
                  queue[i].context.narrow_url = UrlOf(emit_in[1].message, display_recipient)

\* A stream message passed with a group's display_recipient: the
\* AssertionError.
C12_Witness ==
    /\ mode = "narrow" /\ pc = "called"
    /\ narrow_args.message.recipient_type = STREAM
    /\ narrow_args.display_recipient # Absent
    /\ narrow_args.stream # Absent
    /\ raised = "AssertionError"

(***************************************************************************)
(* handle_missedmessage_emails                                             *)
(***************************************************************************)
\* message_ids: the dict comprehension over the events; of several events
\* with one message_id the last one's value stays.
\* A plausible slip: of several events with one message_id the first one's
\* value stays.
message_ids_of_first(events) ==
    [id \in {events[i].message_id : i \in DOMAIN events} |->
        LET first == CHOOSE i \in DOMAIN events :
                         /\ events[i].message_id = id
                         /\ \A j \in DOMAIN events : events[j].message_id = id => i <= j
        IN  [trigger |-> events[first].trigger,
             mentioned_user_group_id |-> events[first].mentioned_user_group_id]]

message_ids_of(events) ==
    [id \in {events[i].message_id : i \in DOMAIN events} |->
        LET last == CHOOSE i \in DOMAIN events :
                        /\ events[i].message_id = id
                        /\ \A j \in DOMAIN events : events[j].message_id = id => j <= i
        IN  [trigger |-> events[last].trigger,
             mentioned_user_group_id |-> events[last].mentioned_user_group_id]]

\* A plausible slip: the read flag is not looked at.
unread_messages_ignoring_read(table, ids) ==
    {table[i] : i \in {j \in DOMAIN table :
        /\ table[j].id \in DOMAIN ids
        /\ table[j].content # "(deleted)"}}

\* Message.objects.filter(usermessage__user_profile_id=..., id__in=message_ids,
\* usermessage__flags=~read).exclude(content="(deleted)"), as a set.
unread_messages(table, ids) ==
    {table[i] : i \in {j \in DOMAIN table :
        /\ table[j].id \in DOMAIN ids
        /\ table[j].unread
        /\ table[j].content # "(deleted)"}}

\* A plausible slip: every message keyed by its sender, those of a topic
\* too.
bucket_tup_by_sender(msg) ==
    [recipient_id |-> msg.recipient_id, by |-> "sender",
     sender_id |-> msg.sender_id, topic |-> ""]

\* A plausible slip: the topic of the key not lower-cased.
bucket_tup_case_sensitive(msg) ==
    IF msg.recipient_type = PERSONAL
    THEN [recipient_id |-> msg.recipient_id, by |-> "sender_id",
          sender_id |-> msg.sender_id, topic |-> ""]
    ELSE [recipient_id |-> msg.recipient_id, by |-> "topic",
          sender_id |-> 0, topic |-> topic_name(msg)]

\* The key of a message's bucket: (recipient_id, sender_id) for a direct
\* message, (recipient_id, topic_name().lower()) otherwise; a tuple with an
\* int second is never equal to one with a str second.
bucket_tup(msg) ==
    IF msg.recipient_type = PERSONAL
    THEN [recipient_id |-> msg.recipient_id, by |-> "sender_id",
          sender_id |-> msg.sender_id, topic |-> ""]
    ELSE [recipient_id |-> msg.recipient_id, by |-> "topic",
          sender_id |-> 0, topic |-> lower(topic_name(msg))]

\* messages_by_bucket[key].append(msg) on a defaultdict(list), which keeps
\* its keys in the order of their first use.
bucket_append(by_bucket, key, msg) ==
    IF \E i \in DOMAIN by_bucket : by_bucket[i].bucket_tup = key
    THEN [i \in DOMAIN by_bucket |->
             IF by_bucket[i].bucket_tup = key
             THEN [by_bucket[i] EXCEPT !.msg_list = Append(@, msg)]
             ELSE by_bucket[i]]
    ELSE Append(by_bucket, [bucket_tup |-> key, msg_list |-> <<msg>>])

RECURSIVE bucket_all(_, _, _)
bucket_all(msgs, i, by_bucket) ==
    IF i > Len(msgs) THEN by_bucket
    ELSE bucket_all(msgs, i + 1, bucket_append(by_bucket, bucket_tup(msgs[i]), msgs[i]))

\* A plausible slip: the count taken after the context was appended.
message_count_with_context(by_bucket, with_context) ==
    [key \in {with_context[i].bucket_tup : i \in DOMAIN with_context} |->
        Len(with_context[CHOOSE i \in DOMAIN with_context :
                             with_context[i].bucket_tup = key].msg_list)]

\* message_count_by_bucket, from the buckets before the context is appended
\* (with_context is what they become).
message_count(by_bucket, with_context) ==
    [key \in {by_bucket[i].bucket_tup : i \in DOMAIN by_bucket} |->
        Len(by_bucket[CHOOSE i \in DOMAIN by_bucket :
                          by_bucket[i].bucket_tup = key].msg_list)]

\* min(msg_list, key=date_sent): the first of the earliest.
min_by_date_sent(msg_list) ==
    msg_list[CHOOSE i \in DOMAIN msg_list :
                 /\ \A j \in DOMAIN msg_list : msg_list[i].date_sent <= msg_list[j].date_sent
                 /\ \A j \in DOMAIN msg_list :
                        msg_list[j].date_sent = msg_list[i].date_sent => i <= j]

\* max(msg_list, key=id).id
max_message_id(msg_list) ==
    CHOOSE id \in {msg_list[i].id : i \in DOMAIN msg_list} :
        \A i \in DOMAIN msg_list : msg_list[i].id <= id

is_stream_message(msg) == msg.recipient_type = STREAM

\* get_context_for_message(msg): the messages that can be context, earlier
\* messages of the same stream and topic; which of them are recent enough
\* and pass bulk_access_messages is the caller's choice.
context_candidates(table, msg) ==
    {table[i].id : i \in {j \in DOMAIN table :
        /\ table[j].recipient_id = msg.recipient_id
        /\ table[j].subject = msg.subject
        /\ table[j].id < msg.id}}

\* The messages with these ids, newest first.
RECURSIVE newest_first(_, _)
newest_first(table, ids) ==
    IF ids = {} THEN <<>>
    ELSE LET top == CHOOSE id \in ids : \A other \in ids : other <= id
         IN  <<table[CHOOSE i \in DOMAIN table : table[i].id = top]>>
             \o newest_first(table, ids \ {top})

\* msg_list.extend(filtered_context_messages) for every bucket; context[i]
\* are the ids of the context messages of the i-th bucket.
extend_with_context(table, by_bucket, context) ==
    [i \in DOMAIN by_bucket |->
        [by_bucket[i] EXCEPT !.msg_list = @ \o newest_first(table, context[i])]]

\* What the context of each bucket can be.
ContextChoices(table, by_bucket) ==
    {context \in [DOMAIN by_bucket -> SUBSET {table[i].id : i \in DOMAIN table}] :
        \A i \in DOMAIN by_bucket :
            LET msg == min_by_date_sent(by_bucket[i].msg_list)
            IN  context[i] \subseteq
                    (IF is_stream_message(msg) THEN context_candidates(table, msg) ELSE {})}

\* sorted(bucket_tups, key=lambda x: x[1]), stable.
RECURSIVE insert_by_max_id(_, _)
insert_by_max_id(sorted, tup) ==
    IF sorted = <<>> THEN <<tup>>
    ELSE IF sorted[Len(sorted)].max_message_id <= tup.max_message_id
         THEN Append(sorted, tup)
         ELSE Append(insert_by_max_id(SubSeq(sorted, 1, Len(sorted) - 1), tup),
                     sorted[Len(sorted)])

RECURSIVE sorted_by_max_id(_)
sorted_by_max_id(tups) ==
    IF tups = <<>> THEN <<>>
    ELSE insert_by_max_id(sorted_by_max_id(SubSeq(tups, 1, Len(tups) - 1)), tups[Len(tups)])

\* A plausible slip: the buckets sent in the order the dict holds them.
sorted_bucket_tups_unsorted(by_bucket) ==
    [i \in DOMAIN by_bucket |->
        [bucket_tup |-> by_bucket[i].bucket_tup,
         max_message_id |-> max_message_id(by_bucket[i].msg_list)]]

\* "Sort emails by least recently-active discussion."
sorted_bucket_tups(by_bucket) ==
    sorted_by_max_id([i \in DOMAIN by_bucket |->
        [bucket_tup |-> by_bucket[i].bucket_tup,
         max_message_id |-> max_message_id(by_bucket[i].msg_list)]])

msg_list_of(by_bucket, key) ==
    by_bucket[CHOOSE i \in DOMAIN by_bucket : by_bucket[i].bucket_tup = key].msg_list

\* list(unique_messages.values()): one entry per message id, at the place of
\* the id's first message, with the trigger info of the batch or None.
unique_messages(msg_list, ids) ==
    LET firsts == {i \in DOMAIN msg_list :
                      \A j \in DOMAIN msg_list : msg_list[j].id = msg_list[i].id => i <= j}
        nth(k) == CHOOSE i \in firsts : Cardinality({j \in firsts : j < i}) = k - 1
    IN  [k \in 1..Cardinality(firsts) |->
            LET m == msg_list[nth(k)]
            IN  MissedMessage(m, IF m.id \in DOMAIN ids THEN ids[m.id] ELSE NoEvent)]

(***************************************************************************)
(* One run of handle_missedmessage_emails over one batch                   *)
(***************************************************************************)
\* The shapes of the stored messages: direct messages of two senders, group
\* messages, and stream messages of two topics, one of them written in two
\* cases by two senders.
StoreShapes ==
    {sh \in MessageShapes :
        \/ sh.recipient_type = PERSONAL
        \/ sh.recipient_type = HUDDLE /\ sh.sender_id = 1
        \/ sh.recipient_type = STREAM /\ sh.subject = "alpha" /\ sh.sender_id = 1
        \/ sh.recipient_type = STREAM /\ sh.subject # "alpha" /\ sh.sender_id = 2}

\* A stored message's UserMessage row and content: unread, read, or unread
\* and deleted.
StoreFlags ==
    {[unread |-> TRUE, content |-> "hi"],
     [unread |-> FALSE, content |-> "hi"],
     [unread |-> TRUE, content |-> "(deleted)"]}

StoredMessage(id, shape, flags) ==
    [id |-> id, date_sent |-> id,
     recipient_type |-> shape.recipient_type, recipient_id |-> shape.recipient_id,
     sender_id |-> shape.sender_id, subject |-> shape.subject,
     unread |-> flags.unread, content |-> flags.content]

\* The Message table: ids are handed out in send order.
Stores ==
    {[id \in 1..MaxMsgs |-> StoredMessage(id, shapes[id], flags[id])] :
        shapes \in [1..MaxMsgs -> StoreShapes], flags \in [1..MaxMsgs -> StoreFlags]}

\* The triggers of the events of the batches.
BatchKinds ==
    {k \in EventKinds : k.trigger \in {"private_message", "mentioned"}
                        /\ k.mentioned_user_group_id = None}

Event(id, kind) ==
    [message_id |-> id, trigger |-> kind.trigger,
     mentioned_user_group_id |-> kind.mentioned_user_group_id]

RECURSIVE Reverse(_)
Reverse(seq) == IF seq = <<>> THEN <<>> ELSE Append(Reverse(Tail(seq)), seq[1])

RECURSIVE ascending(_)
ascending(ids) ==
    IF ids = {} THEN <<>>
    ELSE LET low == CHOOSE id \in ids : \A other \in ids : id <= other
         IN  <<low>> \o ascending(ids \ {low})

\* The batches: at most one event for each stored message, in the order of
\* the ids or against it.
Batches ==
    UNION {UNION {{[i \in 1..Cardinality(ids) |-> Event(ascending(ids)[i], kinds[ascending(ids)[i]])],
                   Reverse([i \in 1..Cardinality(ids) |->
                               Event(ascending(ids)[i], kinds[ascending(ids)[i]])])} :
                     kinds \in [ids -> BatchKinds]} :
              ids \in SUBSET (1..MaxMsgs)}

\* get_user_profile_by_id: the rows the run can find.
HandlerProfiles ==
    {u \in UserProfiles :
        /\ u.message_content_in_email_notifications
        /\ u.realm_message_content_allowed_in_email_notifications}

InitHandler ==
    /\ mode = "handler"
    /\ pc = "start"
    /\ store \in Stores
    /\ missed_email_events \in Batches
    \* a message without an event is one the user has read: the run never
    \* looks at the flags of a message outside the batch
    /\ \A id \in 1..MaxMsgs :
           (\A i \in DOMAIN missed_email_events : missed_email_events[i].message_id # id)
               => ~store[id].unread
    /\ user_profile = <<>>
    /\ send_as_user = FALSE
    /\ display_recipient = DefaultRoster
    /\ now = 1
    /\ queue = <<>>
    /\ raised = None
    /\ emit_in = <<>>
    /\ IdleRun /\ IdleSpoiler /\ IdleList /\ IdleNarrow

\* Lines 567-587: the user is a bot or has the notifications off: return.
ReturnEarly ==
    /\ mode = "handler" /\ pc = "start"
    /\ \E u \in HandlerProfiles :
          /\ u.is_bot \/ ~u.enable_offline_email_notifications
          /\ user_profile' = u
    /\ message_ids' = message_ids_of(missed_email_events)
    /\ pc' = "done"
    /\ UNCHANGED <<mode, inVars, envVars, now, queue, raised, emit_in, messages,
                   messages_by_bucket, message_count_by_bucket, bucket_tups, calls,
                   spoilerVars, listVars, narrowVars>>

\* Lines 567-615: the unread messages of the batch, in the order the query
\* returns them, put into their buckets; without any, return.
BucketMessages ==
    /\ mode = "handler" /\ pc = "start"
    /\ \E u \in HandlerProfiles :
          /\ ~u.is_bot /\ u.enable_offline_email_notifications
          /\ user_profile' = u
    /\ message_ids' = message_ids_of(missed_email_events)
    /\ \E found \in Orderings(unread_messages(store, message_ids')) :
          /\ messages' = found
          /\ messages_by_bucket' = bucket_all(found, 1, <<>>)
          /\ pc' = IF found = <<>> THEN "done" ELSE "bucketed"
    /\ UNCHANGED <<mode, inVars, envVars, now, queue, raised, emit_in,
                   message_count_by_bucket, bucket_tups, calls, spoilerVars, listVars, narrowVars>>

\* Lines 613-630: the counts, the context of the stream buckets, the order
\* of the buckets.
AttachContextAndSort ==
    /\ mode = "handler" /\ pc = "bucketed"
    /\ \E context \in ContextChoices(store, messages_by_bucket) :
          /\ messages_by_bucket' = extend_with_context(store, messages_by_bucket, context)
          /\ message_count_by_bucket' = message_count(messages_by_bucket, messages_by_bucket')
          /\ bucket_tups' = sorted_bucket_tups(messages_by_bucket')
    /\ pc' = "sending"
    /\ UNCHANGED <<mode, inVars, envVars, outVars, emit_in, message_ids, messages, calls,
                   spoilerVars, listVars, narrowVars>>

\* Lines 633-648, one pass of the loop: the next bucket is emitted; an
\* exception of the emitter ends the run.
SendBucket ==
    /\ mode = "handler" /\ pc = "sending"
    /\ LET tup == bucket_tups[Len(calls) + 1].bucket_tup
           missed == unique_messages(msg_list_of(messages_by_bucket, tup), message_ids)
           n_unread == message_count_by_bucket[tup]
       IN  \E r \in do_send_missedmessage_events_reply_in_zulip(user_profile, missed, n_unread) :
              /\ calls' = Append(calls, [bucket_tup |-> tup, missed_messages |-> missed,
                                         message_count |-> n_unread, raised |-> r.raised])
              /\ queue' = queue \o r.published
              /\ raised' = r.raised
              /\ user_profile' = IF r.raised = None
                                 THEN [user_profile EXCEPT !.last_reminder = now]
                                 ELSE user_profile
              /\ pc' = IF r.raised # None THEN "failed"
                       ELSE IF Len(calls') = Len(bucket_tups) THEN "done" ELSE "sending"
    /\ now' = now + 1
    /\ UNCHANGED <<mode, inVars, envVars, emit_in, message_ids, messages, messages_by_bucket,
                   message_count_by_bucket, bucket_tups, spoilerVars, listVars, narrowVars>>

Next == ReturnEarly \/ BucketMessages \/ AttachContextAndSort \/ SendBucket

Spec == InitHandler /\ [][Next]_vars

(***************************************************************************)
(* Runs over batches with several events for one message                   *)
(***************************************************************************)
RepeatIds == 1..2

\* Two stored messages: of one topic of the stream by either sender, or a
\* direct message; unread or read.
RepeatStores ==
    {[id \in RepeatIds |-> StoredMessage(id, shapes[id], flags[id])] :
        shapes \in [RepeatIds ->
                      {sh \in MessageShapes :
                          \/ sh.recipient_type = STREAM /\ sh.subject = "alpha"
                          \/ sh.recipient_type = PERSONAL /\ sh.sender_id = 1}],
        flags \in [RepeatIds -> {f \in StoreFlags : f.content = "hi"}]}

\* The batches: up to MaxEvents events in any order, any number of them for
\* one message, each with any trigger.
RepeatBatches ==
    {[i \in DOMAIN ids |-> Event(ids[i], kinds[i])] :
        ids \in SeqsUpTo(RepeatIds, MaxEvents), kinds \in [1..MaxEvents -> EventKinds]}

InitRepeat ==
    /\ mode = "handler"
    /\ pc = "start"
    /\ store \in RepeatStores
    /\ missed_email_events \in RepeatBatches
    /\ \A id \in RepeatIds :
           (\A i \in DOMAIN missed_email_events : missed_email_events[i].message_id # id)
               => ~store[id].unread
    /\ user_profile = <<>>
    /\ send_as_user = FALSE
    /\ display_recipient = DefaultRoster
    /\ now = 1
    /\ queue = <<>>
    /\ raised = None
    /\ emit_in = <<>>
    /\ IdleRun /\ IdleSpoiler /\ IdleList /\ IdleNarrow

SpecRepeat == InitRepeat /\ [][Next]_vars

(***************************************************************************)
(* Claims about handle_missedmessage_emails                                *)
(***************************************************************************)
InRun == mode = "handler" /\ pc # "start"
Ended == mode = "handler" /\ pc \in {"done", "failed"}

\* The messages of the batch that are still unread and not deleted.
StillUnread ==
    {store[i] : i \in {j \in DOMAIN store :
        /\ \E e \in DOMAIN missed_email_events : missed_email_events[e].message_id = store[j].id
        /\ store[j].unread
        /\ store[j].content # "(deleted)"}}

\* Same recipient and, for direct messages, same sender, for the others,
\* same topic but for the case.
SameConversation(m1, m2) ==
    /\ m1.recipient_id = m2.recipient_id
    /\ \/ m1.recipient_type = PERSONAL /\ m2.recipient_type = PERSONAL
          /\ m1.sender_id = m2.sender_id
       \/ m1.recipient_type # PERSONAL /\ m2.recipient_type # PERSONAL
          /\ lower(m1.subject) = lower(m2.subject)

BucketsOf(id) ==
    {b \in DOMAIN messages_by_bucket :
        \E k \in DOMAIN messages_by_bucket[b].msg_list :
            messages_by_bucket[b].msg_list[k].id = id}

MaxOf(S) == CHOOSE x \in S : \A y \in S : y <= x

\* The greatest message id a payload renders.
PayloadMaxId(payload) == MaxOf(Range(FlattenBlocks(payload.context.messages)))

BucketMaxIds ==
    {MaxOf({messages_by_bucket[b].msg_list[k].id :
               k \in DOMAIN messages_by_bucket[b].msg_list}) :
        b \in DOMAIN messages_by_bucket}

\* C1: in one run the payloads reach the queue in ascending order of the
\* greatest message id of their buckets, context messages included: the k-th
\* payload is that of the bucket with the k-th smallest greatest id, whatever
\* the order of the events and of the query's result.
C1_PayloadsAscendingByMaxId ==
    (mode = "handler" /\ pc \in {"sending", "done", "failed"}) =>
        /\ \A i \in DOMAIN queue, j \in DOMAIN queue :
               i < j => PayloadMaxId(queue[i]) < PayloadMaxId(queue[j])
        /\ \A i \in DOMAIN queue :
               /\ PayloadMaxId(queue[i]) \in BucketMaxIds
               /\ Cardinality({x \in BucketMaxIds : x < PayloadMaxId(queue[i])}) = i - 1

\* Three buckets were emitted, the query having returned the newest message
\* first and the events having arrived newest first.
C1_Witness ==
    /\ mode = "handler" /\ pc = "done"
    /\ Len(queue) = 3
    /\ messages[1].id = 3
    /\ missed_email_events[1].message_id = 3

CallsFor(key) == {i \in DOMAIN calls : calls[i].bucket_tup = key}
BucketKeys == {messages_by_bucket[b].bucket_tup : b \in DOMAIN messages_by_bucket}
Completed == {i \in DOMAIN calls : calls[i].raised = None}

\* C2 as claimed: when the run has ended, the emitter was invoked exactly
\* once for every bucket formed, every invocation that completed published
\* one payload, and nothing else was published.
C2_EveryBucketEmittedOnce ==
    Ended =>
        /\ \A key \in BucketKeys : Cardinality(CallsFor(key)) = 1
        /\ \A i \in DOMAIN calls : calls[i].bucket_tup \in BucketKeys
        /\ Len(queue) = Cardinality(Completed)
        /\ raised = None => Len(queue) = Len(messages_by_bucket)

\* C2 as amended: the emitter is invoked at most once for a bucket, in the
\* order of the sorted buckets, and only for buckets; every invocation that
\* completes publishes exactly one payload; an invocation that raises ends
\* the run, the buckets after it are never emitted; a run that ends without
\* an error has emitted every bucket once and published as many payloads as
\* there are buckets.
C2_BucketsEmittedOnceUntilError ==
    mode = "handler" =>
        /\ \A key \in BucketKeys : Cardinality(CallsFor(key)) <= 1
        /\ \A i \in DOMAIN calls :
               /\ calls[i].bucket_tup = bucket_tups[i].bucket_tup
               /\ calls[i].bucket_tup \in BucketKeys
               /\ calls[i].raised # None => (i = Len(calls) /\ pc = "failed")
        /\ Len(queue) = Cardinality(Completed)
        /\ pc = "failed" => (raised # None /\ calls # <<>> /\ calls[Len(calls)].raised # None)
        /\ pc = "done" =>
               /\ raised = None
               /\ \A key \in BucketKeys : Cardinality(CallsFor(key)) = 1
               /\ Len(queue) = Len(messages_by_bucket)

\* Of three buckets the first was published, the second raised, and the
\* third was never emitted.
C2_Witness ==
    /\ mode = "handler" /\ pc = "failed"
    /\ Len(messages_by_bucket) = 3
    /\ Len(calls) = 2
    /\ Len(queue) = 1

\* C3: in a run for a user who gets these emails, every still-unread
\* message of the batch is in exactly one bucket, a
\* bucket holds nothing else before the context is attached, and two such
\* messages share a bucket iff they have the same recipient and, direct
\* messages, the same sender, or, group and stream messages, topics equal
\* after lower-casing.
C3_BucketsPartitionUnread ==
    (InRun /\ ~user_profile.is_bot /\ user_profile.enable_offline_email_notifications) =>
        /\ \A m \in StillUnread : Cardinality(BucketsOf(m.id)) = 1
        /\ \A m1 \in StillUnread, m2 \in StillUnread :
               (BucketsOf(m1.id) = BucketsOf(m2.id)) <=> SameConversation(m1, m2)
        /\ pc = "bucketed" =>
               \A b \in DOMAIN messages_by_bucket :
                   /\ messages_by_bucket[b].msg_list # <<>>
                   /\ \A k \in DOMAIN messages_by_bucket[b].msg_list :
                          /\ messages_by_bucket[b].msg_list[k] \in StillUnread
                          /\ \A l \in DOMAIN messages_by_bucket[b].msg_list :
                                 messages_by_bucket[b].msg_list[l]
                                     = messages_by_bucket[b].msg_list[k] => l = k

\* Two stream messages whose topics differ in case only share a bucket, and
\* a message of another topic of the stream has its own.
C3_Witness ==
    /\ mode = "handler" /\ pc = "bucketed"
    /\ Len(messages_by_bucket) = 2
    /\ \E m1 \in StillUnread, m2 \in StillUnread, m3 \in StillUnread :
          /\ m1.subject = "alpha" /\ m2.subject = "Alpha" /\ m3.subject = "beta"
          /\ BucketsOf(m1.id) = BucketsOf(m2.id)
          /\ BucketsOf(m3.id) # BucketsOf(m1.id)

\* C4: the message_count the emitter gets for a bucket, and puts into the
\* payload, is the number of still-unread messages of the batch in the
\* bucket; the context messages of the bucket are not counted.
C4_CountExcludesContext ==
    mode = "handler" =>
        /\ \A i \in DOMAIN calls :
               /\ calls[i].message_count =
                      Cardinality({m \in StillUnread :
                          SameConversation(m, calls[i].missed_messages[1].message)})
               /\ calls[i].message_count =
                      Cardinality({k \in DOMAIN calls[i].missed_messages :
                          \E m \in StillUnread : m.id = calls[i].missed_messages[k].message.id})
        /\ \A i \in DOMAIN queue :
               queue[i].context.message_count =
                   Cardinality({m \in StillUnread :
                       m.id \in Range(FlattenBlocks(queue[i].context.messages))})

\* A stream bucket of two unread messages and one context message was
\* emitted with a count of 2.
C4_Witness ==
    /\ mode = "handler" /\ pc = "done"
    /\ Len(calls) = 1 /\ Len(queue) = 1
    /\ Len(calls[1].missed_messages) = 3
    /\ calls[1].message_count = 2
    /\ queue[1].context.message_count = 2

\* C7: for a bot, for a user with the offline email notifications off, and
\* for a batch none of whose messages is still unread and not deleted, the
\* run returns without an exception, having formed no bucket, published
\* nothing and left last_reminder as it was.
C7_NothingSentWithoutCause ==
    (InRun /\ (\/ user_profile.is_bot
               \/ ~user_profile.enable_offline_email_notifications
               \/ StillUnread = {})) =>
        /\ pc = "done"
        /\ raised = None
        /\ queue = <<>>
        /\ messages_by_bucket = <<>>
        /\ calls = <<>>
        /\ user_profile.last_reminder = 0

\* A user with notifications on and a batch of one read and one deleted
\* message: the run returned.
C7_Witness ==
    /\ mode = "handler" /\ pc = "done"
    /\ ~user_profile.is_bot /\ user_profile.enable_offline_email_notifications
    /\ Len(missed_email_events) >= 2
    /\ \E i \in DOMAIN store, j \in DOMAIN store :
          /\ \E e \in DOMAIN missed_email_events : missed_email_events[e].message_id = i
          /\ \E e \in DOMAIN missed_email_events : missed_email_events[e].message_id = j
          /\ ~store[i].unread
          /\ store[j].unread /\ store[j].content = "(deleted)"
    /\ StillUnread = {}
    /\ queue = <<>>

(***************************************************************************)
(* Claims about the events of one message                                  *)
(***************************************************************************)
HasEvent(id) ==
    \E i \in DOMAIN missed_email_events : missed_email_events[i].message_id = id

\* The last event of the batch for a message.
LastEvent(id) ==
    missed_email_events[
        CHOOSE i \in DOMAIN missed_email_events :
            /\ missed_email_events[i].message_id = id
            /\ \A j \in DOMAIN missed_email_events :
                   j > i => missed_email_events[j].message_id # id]

\* The messages of a call whose last event has one of these triggers.
WithLastTrigger(call, triggers) ==
    {k \in DOMAIN call.missed_messages :
        /\ HasEvent(call.missed_messages[k].message.id)
        /\ LastEvent(call.missed_messages[k].message.id).trigger \in triggers}

\* C13: of several events of a batch for one message id the last one alone
\* counts: the message is passed to the emitter with its trigger and its
\* mentioned_user_group_id, and the mention flags and the mention count of
\* the payload are those of the last events.
C13_LastEventWins ==
    mode = "handler" =>
        /\ \A c \in DOMAIN calls : \A k \in DOMAIN calls[c].missed_messages :
               LET mm == calls[c].missed_messages[k]
               IN  HasEvent(mm.message.id) =>
                       /\ mm.trigger = LastEvent(mm.message.id).trigger
                       /\ mm.mentioned_user_group_id
                              = LastEvent(mm.message.id).mentioned_user_group_id
        /\ \A i \in DOMAIN queue :
               LET mentions == WithLastTrigger(calls[i], {"mentioned", "wildcard_mentioned"})
               IN  /\ queue[i].context.mention = (mentions # {})
                   /\ queue[i].context.mention_count = Cardinality(mentions)
                   /\ queue[i].context.wildcard_mentioned
                          = (WithLastTrigger(calls[i], {"wildcard_mentioned"}) # {})
                   /\ queue[i].context.stream_email_notify
                          = (WithLastTrigger(calls[i], {"stream_email_notify"}) # {})
                   /\ queue[i].context.personal_mentioned
                          = (\E k \in WithLastTrigger(calls[i], {"mentioned"}) :
                                LastEvent(calls[i].missed_messages[k].message.id)
                                    .mentioned_user_group_id = None)

\* A stream message with a mentioned event, then a wildcard_mentioned event,
\* then a stream_email_notify event: the payload knows of no mention.
C13_Witness ==
    /\ mode = "handler" /\ pc = "done"
    /\ Len(missed_email_events) = 3
    /\ \A i \in 1..3 : missed_email_events[i].message_id = 2
    /\ missed_email_events[1].trigger = "mentioned"
    /\ missed_email_events[2].trigger = "wildcard_mentioned"
    /\ missed_email_events[3].trigger = "stream_email_notify"
    /\ store[2].recipient_type = STREAM
    /\ Len(queue) = 1
    /\ ~queue[1].context.mention
    /\ ~queue[1].context.wildcard_mentioned
    /\ queue[1].context.mention_count = 0
    /\ queue[1].context.stream_email_notify

(***************************************************************************)
(* Claims about the lists passed to the emitter                            *)
(***************************************************************************)
RecipientPairs(missed_messages) ==
    {<<missed_messages[i].message.recipient_id,
       lower(missed_messages[i].message.subject)>> : i \in DOMAIN missed_messages}

\* C17: every list the run passes to the emitter, the context messages in
\* it, is of one recipient id and one lower-cased topic, whether the bucket
\* is direct, group or stream: the emitter never raises "Unexpectedly
\* multiple recipients".
C17_OneRecipientPerCall ==
    mode = "handler" =>
        /\ raised # "AssertionError: Unexpectedly multiple recipients"
        /\ \A c \in DOMAIN calls :
               /\ calls[c].missed_messages # <<>>
               /\ Cardinality(RecipientPairs(calls[c].missed_messages)) = 1
               /\ calls[c].raised # "AssertionError: Unexpectedly multiple recipients"

\* A stream bucket of an "alpha" and an "Alpha" message was emitted, and so
\* was a bucket of direct messages.
C17_Witness ==
    /\ mode = "handler" /\ pc = "done"
    /\ \E c \in DOMAIN calls :
          /\ Len(calls[c].missed_messages) = 2
          /\ calls[c].missed_messages[1].message.recipient_type = STREAM
          /\ calls[c].missed_messages[1].message.subject
                 # calls[c].missed_messages[2].message.subject
    /\ \E c \in DOMAIN calls :
          calls[c].missed_messages[1].message.recipient_type = PERSONAL
    /\ Len(queue) = 2

\* C18: in every list passed to the emitter a message id occurs once, and
\* a message that is not one of the still-unread messages of the batch, a
\* context message, is passed with trigger None and mentioned_user_group_id
\* None, so that the mention flags, the mention count and the narrowed
\* senders of the payload come from still-unread messages alone.
C18_ContextMessagesHaveNoTrigger ==
    mode = "handler" =>
        /\ \A c \in DOMAIN calls :
               LET missed == calls[c].missed_messages
               IN  /\ \A k \in DOMAIN missed, l \in DOMAIN missed :
                          missed[k].message.id = missed[l].message.id => k = l
                   /\ \A k \in DOMAIN missed :
                          (\A m \in StillUnread : m.id # missed[k].message.id) =>
                              /\ missed[k].trigger = None
                              /\ missed[k].mentioned_user_group_id = None
        /\ \A i \in DOMAIN queue :
               LET missed == calls[i].missed_messages
                   unread == {k \in DOMAIN missed :
                                 \E m \in StillUnread : m.id = missed[k].message.id}
               IN  queue[i].context.mention_count =
                       Cardinality({k \in unread :
                           missed[k].trigger \in {"mentioned", "wildcard_mentioned"}})

====
